---- MODULE Spec2Model ----
(***************************************************************************)
(* Model of src/spotify/utils.py: the recommendation engine                *)
(* (normalize_data, recommend) and the playlist namer (choose_name).       *)
(*                                                                         *)
(* Catalog indices and list offsets are 0-based as in Python; TLA+         *)
(* sequences are 1-based, hence the "+ 1" wherever a Python index reads a  *)
(* sequence.  Feature values are exact rationals: a normalized value v is  *)
(* stored as the integer v * Unit (floating-point rounding is not          *)
(* modelled).  Strings are sequences of one-character strings.             *)
(***************************************************************************)
EXTENDS Integers, Sequences, FiniteSets, TLC

VARIABLES
    features_in,     \* recommend's argument features_df as passed by the caller
    data_in,         \* recommend's argument data_df as passed by the caller
    bad,             \* recommend's argument bad
    features_df,     \* local features_df (line 124)
    data_df,         \* local data_df (line 125)
    user_avg,        \* line 128
    ordered,         \* line 137
    random_indexes,  \* lines 143-147 / 158-162
    recommendations, \* line 148 / 163
    rec_result,      \* the returned (rec_names, rec_ids, rec_artists), line 174
    pc,              \* position in recommend
    error,           \* exception that ended recommend, or NoError
    noun_chunks,     \* choose_name's argument
    word_length,     \* line 204 / 208
    playlist,        \* line 207
    p_list,          \* line 210 / 213
    play_name,       \* line 211 / 214
    name_pc,         \* position in choose_name
    name_draws,      \* parity of the random draws choose_name has made
    name_result,     \* the string choose_name returned, or NoName
    name_error       \* exception that ended choose_name, or NoError

rec_vars == <<features_in, data_in, bad, features_df, data_df, user_avg,
              ordered, random_indexes, recommendations, rec_result, pc, error>>
name_vars == <<noun_chunks, word_length, playlist, p_list, play_name,
               name_pc, name_draws, name_result, name_error>>
vars == <<rec_vars, name_vars>>

-----------------------------------------------------------------------------
(* Bounds of the model.                                                    *)

\* Largest raw feature value; raw values range over 0..MaxVal.
MaxVal == 1
\* Largest catalog (rows) handed to the ranking steps in SpecRank.
MaxRows == 2
\* Largest user profile (rows) in SpecRank.
MaxUsers == 2
\* Largest catalog (rows) handed to recommend in Spec.
MaxCatalog == 6
\* The code draws 10 offsets (lines 144, 159) from randrange(0, 100)
\* (line 160) or randrange(-300, 0) (line 145).  The model keeps the code's
\* order 10 < 100 < 300 at a size whose draw sequences can be enumerated.
NumRecs == 3
GoodSpan == 4
BadSpan == 5

\* Most chunks generate_noun_chunks returns in SpecName.
MaxChunks == 2
\* Most words in a chunk.
MaxWords == 5

NoError == "none"
NoResult == <<>>
NoName == <<"?">>

-----------------------------------------------------------------------------
(* Feature tables.                                                         *)

\* Two of the twelve columns of FEATURE_NAMES: the scaler and the distance
\* treat every column alike and independently.
FEATURE_NAMES == <<"danceability", "energy">>

Cols == 1..Len(FEATURE_NAMES)
FeatureRows == [Cols -> 0..MaxVal]
Tables(n) == UNION {[1..k -> FeatureRows] : k \in 0..n}

RECURSIVE GCD(_, _)
GCD(a, b) == IF b = 0 THEN a ELSE GCD(b, a % b)
RECURSIVE LCMUpTo(_)
LCMUpTo(n) == IF n <= 1 THEN 1 ELSE (LCMUpTo(n - 1) * n) \div GCD(LCMUpTo(n - 1), n)
\* A normalized value v is stored as v * Unit; every column range divides Unit.
Unit == LCMUpTo(MaxVal)

ColMin(df, c) == CHOOSE m \in {df[i][c] : i \in 1..Len(df)} :
                    \A i \in 1..Len(df) : m <= df[i][c]
ColMax(df, c) == CHOOSE m \in {df[i][c] : i \in 1..Len(df)} :
                    \A i \in 1..Len(df) : m >= df[i][c]

\* MinMaxScaler: a zero data range is replaced by 1 before dividing.
HandleZeros(data_range) == IF data_range = 0 THEN 1 ELSE data_range

\* MinMaxScaler.transform: X * scale_ + min_, scale_ = 1 / range,
\* min_ = 0 - data_min * scale_.
ScaleNoShift(x, data_min, data_range) == (x * Unit) \div HandleZeros(data_range)
Scale(x, data_min, data_range) ==
    ((x - data_min) * Unit) \div HandleZeros(data_range)

normalize_data(df) ==
    [i \in 1..Len(df) |->
        [c \in Cols |-> Scale(df[i][c], ColMin(df, c),
                              ColMax(df, c) - ColMin(df, c))]]

RECURSIVE SumTo(_, _)
SumTo(f, n) == IF n = 0 THEN 0 ELSE f[n] + SumTo(f, n - 1)

\* features_df.mean(axis=0): column c is num[c] / (den * Unit).
Mean(rows) ==
    [num |-> [c \in Cols |-> SumTo([i \in 1..Len(rows) |-> rows[i][c]], Len(rows))],
     den |-> Len(rows)]

\* Squared Euclidean distance from the mean to a row, times (den * Unit)^2.
SqDist(avg, row) ==
    SumTo([c \in Cols |-> (row[c] * avg.den - avg.num[c])
                          * (row[c] * avg.den - avg.num[c])], Len(FEATURE_NAMES))

\* The rows the neighbour search may emit next: those nearest to avg.
NearestFarthest(avg, samples, left) ==
    {m \in left : \A o \in left : SqDist(avg, samples[m + 1]) >= SqDist(avg, samples[o + 1])}
Nearest(avg, samples, left) ==
    {m \in left : \A o \in left : SqDist(avg, samples[m + 1]) <= SqDist(avg, samples[o + 1])}

\* NearestNeighbors(n_neighbors=len(data_df)).kneighbors(user_avg): every
\* row index, nearest first; the order among equidistant rows is the
\* library's choice, so every such order is an outcome.
RECURSIVE SortedOrders(_, _, _)
SortedOrders(avg, samples, left) ==
    IF left = {} THEN {<<>>}
    ELSE UNION {{<<m>> \o rest : rest \in SortedOrders(avg, samples, left \ {m})} :
                    m \in Nearest(avg, samples, left)}
kneighbors(avg, samples) == SortedOrders(avg, samples, 0..(Len(samples) - 1))

-----------------------------------------------------------------------------
(* recommend, lines 114-174.                                               *)

Range(s) == {s[i] : i \in 1..Len(s)}

\* random.randrange(-300, 0) / random.randrange(0, 100)
DrawRange(b) == IF b THEN (0 - BadSpan)..(0 - 1) ELSE 0..(GoodSpan - 1)

\* "if index not in random_indexes"
IsNewAlways(index, indexes) == TRUE
IsNew(index, indexes) == index \notin Range(indexes)

\* ordered[index] raises IndexError outside -n..n-1.
InBounds(index, n) == (0 - n) <= index /\ index < n
\* Position (0-based) that ordered[index] reads.
Position(index, n) == IF index < 0 THEN n + index ELSE index
Lookup(seq, index) == seq[Position(index, Len(seq)) + 1]

RecIdle ==
    /\ features_in = <<>> /\ data_in = <<>> /\ bad = FALSE
    /\ features_df = <<>> /\ data_df = <<>>
    /\ user_avg = Mean(<<>>) /\ ordered = <<>>
    /\ random_indexes = <<>> /\ recommendations = <<>>
    /\ rec_result = NoResult /\ pc = "idle" /\ error = NoError

RecStart(features, data, b) ==
    /\ features_in = features /\ data_in = data /\ bad = b
    /\ features_df = features /\ data_df = data
    /\ user_avg = Mean(<<>>) /\ ordered = <<>>
    /\ random_indexes = <<>> /\ recommendations = <<>>
    /\ rec_result = NoResult /\ pc = "normalize_features" /\ error = NoError

Raise(e) ==
    /\ pc' = "failed"
    /\ error' = e

\* Line 124.  The scaler rejects a table without rows.
NormalizeFeaturesSkipped ==
    /\ pc = "normalize_features"
    /\ IF Len(features_df) = 0
       THEN Raise("ValueError")
       ELSE pc' = "normalize_data" /\ UNCHANGED error
    /\ UNCHANGED <<features_in, data_in, bad, features_df, data_df, user_avg,
                   ordered, random_indexes, recommendations, rec_result>>
    /\ UNCHANGED name_vars
NormalizeFeatures ==
    /\ pc = "normalize_features"
    /\ IF Len(features_df) = 0
       THEN Raise("ValueError") /\ UNCHANGED features_df
       ELSE /\ features_df' = normalize_data(features_df)
            /\ pc' = "normalize_data"
            /\ UNCHANGED error
    /\ UNCHANGED <<features_in, data_in, bad, data_df, user_avg, ordered,
                   random_indexes, recommendations, rec_result>>
    /\ UNCHANGED name_vars

\* Line 125.
NormalizeData ==
    /\ pc = "normalize_data"
    /\ IF Len(data_df) = 0
       THEN Raise("ValueError") /\ UNCHANGED data_df
       ELSE /\ data_df' = normalize_data(data_df)
            /\ pc' = "rank"
            /\ UNCHANGED error
    /\ UNCHANGED <<features_in, data_in, bad, features_df, user_avg, ordered,
                   random_indexes, recommendations, rec_result>>
    /\ UNCHANGED name_vars

\* Lines 128-137.
Rank ==
    /\ pc = "rank"
    /\ user_avg' = Mean(features_df)
    /\ ordered' \in kneighbors(user_avg', data_df)
    /\ pc' = "draw"
    /\ UNCHANGED <<features_in, data_in, bad, features_df, data_df,
                   random_indexes, recommendations, rec_result, error>>
    /\ UNCHANGED name_vars

\* One iteration of the while loop of lines 144-147 / 159-162.
Draw ==
    /\ pc = "draw"
    /\ Len(random_indexes) < NumRecs
    /\ \E index \in DrawRange(bad) :
          random_indexes' = IF IsNew(index, random_indexes)
                            THEN Append(random_indexes, index)
                            ELSE random_indexes
    /\ UNCHANGED <<features_in, data_in, bad, features_df, data_df, user_avg,
                   ordered, recommendations, rec_result, pc, error>>
    /\ UNCHANGED name_vars

\* Lines 148-174: the loop has ended; read ordered at the drawn offsets and
\* look the rows up.  A row's name, id and primary artist are identified
\* with its catalog index.
Select ==
    /\ pc = "draw"
    /\ Len(random_indexes) >= NumRecs
    /\ IF \A k \in 1..Len(random_indexes) : InBounds(random_indexes[k], Len(ordered))
       THEN /\ recommendations' =
                  [k \in 1..Len(random_indexes) |-> Lookup(ordered, random_indexes[k])]
            /\ rec_result' = [rec_names   |-> recommendations',
                              rec_ids     |-> recommendations',
                              rec_artists |-> recommendations']
            /\ pc' = "done"
            /\ UNCHANGED error
       ELSE Raise("IndexError") /\ UNCHANGED <<recommendations, rec_result>>
    /\ UNCHANGED <<features_in, data_in, bad, features_df, data_df, user_avg,
                   ordered, random_indexes>>
    /\ UNCHANGED name_vars

NameIdle ==
    /\ noun_chunks = <<>> /\ word_length = 0 /\ playlist = <<>>
    /\ p_list = <<>> /\ play_name = <<>> /\ name_pc = "idle" /\ name_draws = 0
    /\ name_result = NoName /\ name_error = NoError

\* Ranking only: every catalog within the bounds, and every user profile up
\* to the order of its rows (the profile enters through its column minima,
\* maxima and means, which do not depend on that order).
RECURSIVE RowCode(_, _)
RowCode(row, c) == IF c = 0 THEN 0 ELSE RowCode(row, c - 1) * (MaxVal + 1) + row[c]
UserTables ==
    {t \in Tables(MaxUsers) :
        \A i \in 1..(Len(t) - 1) :
           RowCode(t[i], Len(FEATURE_NAMES)) <= RowCode(t[i + 1], Len(FEATURE_NAMES))}
InitRank ==
    /\ \E features \in UserTables, data \in Tables(MaxRows) :
          RecStart(features, data, FALSE)
    /\ NameIdle
NextRank == NormalizeFeatures \/ NormalizeData \/ Rank
SpecRank == InitRank /\ [][NextRank]_vars


-----------------------------------------------------------------------------
(* Strings: str.split, str.join, str.lower, str.title, startswith,         *)
(* endswith.                                                               *)

LowerCase == <<"a", "b", "d", "e", "g", "l", "n", "o", "r", "v">>
UpperCase == <<"A", "B", "D", "E", "G", "L", "N", "O", "R", "V">>
IndexIn(seq, ch) == CHOOSE i \in 1..Len(seq) : seq[i] = ch
IsCased(ch) == ch \in Range(LowerCase) \cup Range(UpperCase)
LowerChar(ch) == IF ch \in Range(UpperCase) THEN LowerCase[IndexIn(UpperCase, ch)] ELSE ch
UpperChar(ch) == IF ch \in Range(LowerCase) THEN UpperCase[IndexIn(LowerCase, ch)] ELSE ch

lower(s) == [i \in 1..Len(s) |-> LowerChar(s[i])]
\* str.title: a cased character is upper-cased unless a cased character
\* precedes it, in which case it is lower-cased.
title(s) ==
    [i \in 1..Len(s) |->
        IF i > 1 /\ IsCased(s[i - 1]) THEN LowerChar(s[i]) ELSE UpperChar(s[i])]

\* str.split(): the maximal runs of non-blank characters.
RECURSIVE SplitFrom(_, _, _, _)
SplitFrom(s, i, word, words) ==
    IF i > Len(s)
    THEN IF word = <<>> THEN words ELSE Append(words, word)
    ELSE IF s[i] = " "
         THEN SplitFrom(s, i + 1, <<>>, IF word = <<>> THEN words ELSE Append(words, word))
         ELSE SplitFrom(s, i + 1, Append(word, s[i]), words)
split(s) == SplitFrom(s, 1, <<>>, <<>>)

\* " ".join(words)
RECURSIVE join(_)
join(words) ==
    IF Len(words) = 0 THEN <<>>
    ELSE IF Len(words) = 1 THEN words[1]
    ELSE words[1] \o <<" ">> \o join(Tail(words))

startswith(s, prefix) == Len(prefix) <= Len(s) /\ SubSeq(s, 1, Len(prefix)) = prefix
endswith(s, suffix) ==
    Len(suffix) <= Len(s) /\ SubSeq(s, Len(s) - Len(suffix) + 1, Len(s)) = suffix

-----------------------------------------------------------------------------
(* generate_noun_chunks, lines 188-195, and choose_name, lines 198-217.    *)

conjs == <<<<"a", "n", "d">>, <<"o", "r">>, <<"b", "u", "t">>>>

\* Lines 190-194: the chunks of every document, in order.  docs[i] is
\* doc.noun_chunks of the i-th lyric as the spaCy pipeline segments it.
RECURSIVE generate_noun_chunks(_)
generate_noun_chunks(docs) ==
    IF docs = <<>> THEN <<>> ELSE Head(docs) \o generate_noun_chunks(Tail(docs))

\* The while condition of line 212.
RejectedStartOnly(name) == \E k \in 1..Len(conjs) : startswith(lower(name), conjs[k])
Rejected(name) ==
    \/ \E k \in 1..Len(conjs) : startswith(lower(name), conjs[k])
    \/ \E k \in 1..Len(conjs) : endswith(lower(name), conjs[k])

NameStart(chunks) ==
    /\ noun_chunks = chunks /\ word_length = 0 /\ playlist = <<>>
    /\ p_list = <<>> /\ play_name = <<>> /\ name_pc = "choose" /\ name_draws = 0
    /\ name_result = NoName /\ name_error = NoError

\* Lines 206-208: one iteration of the first loop.  random.choice raises
\* IndexError on an empty sequence.
ChoosePhraseEmptyName ==
    /\ name_pc = "choose"
    /\ IF noun_chunks = <<>>
       THEN /\ name_pc' = "done"
            /\ name_result' = <<>>
            /\ UNCHANGED <<word_length, playlist, name_draws>>
       ELSE /\ \E i \in 1..Len(noun_chunks) : playlist' = noun_chunks[i]
            /\ word_length' = Len(split(playlist'))
            /\ name_pc' = IF word_length' < 3 THEN "choose" ELSE "branch"
            /\ name_draws' = 1 - name_draws
            /\ UNCHANGED name_result
    /\ UNCHANGED <<noun_chunks, p_list, play_name, name_error>>
    /\ UNCHANGED rec_vars
ChoosePhrase ==
    /\ name_pc = "choose"
    /\ IF noun_chunks = <<>>
       THEN /\ name_pc' = "failed"
            /\ name_error' = "IndexError"
            /\ UNCHANGED <<word_length, playlist, name_draws>>
       ELSE /\ \E i \in 1..Len(noun_chunks) : playlist' = noun_chunks[i]
            /\ word_length' = Len(split(playlist'))
            /\ name_pc' = IF word_length' < 3 THEN "choose" ELSE "branch"
            /\ name_draws' = 1 - name_draws
            /\ UNCHANGED name_error
    /\ UNCHANGED <<noun_chunks, p_list, play_name, name_result>>
    /\ UNCHANGED rec_vars

\* Lines 210-211 and 213-214: random.sample(playlist.split(), k=2) takes the
\* words at two different positions, in either order.
SamplePair ==
    /\ \/ name_pc = "branch" /\ word_length > 4
       \/ name_pc = "resample"
    /\ LET words == split(playlist)
       IN  \E i, j \in 1..Len(words) :
              /\ i # j
              /\ p_list' = <<words[i], words[j]>>
    /\ play_name' = join(p_list')
    /\ name_draws' = 1 - name_draws
    /\ name_pc' = "check"
    /\ UNCHANGED <<noun_chunks, word_length, playlist, name_result, name_error>>
    /\ UNCHANGED rec_vars

\* Lines 212 and 215.
CheckPair ==
    /\ name_pc = "check"
    /\ IF Rejected(play_name)
       THEN name_pc' = "resample" /\ UNCHANGED name_result
       ELSE name_pc' = "done" /\ name_result' = title(play_name)
    /\ UNCHANGED <<noun_chunks, word_length, playlist, p_list, play_name,
                   name_draws, name_error>>
    /\ UNCHANGED rec_vars

\* Lines 216-217.
ReturnWhole ==
    /\ name_pc = "branch"
    /\ word_length <= 4
    /\ name_result' = title(playlist)
    /\ name_pc' = "done"
    /\ UNCHANGED <<noun_chunks, word_length, playlist, p_list, play_name,
                   name_draws, name_error>>
    /\ UNCHANGED rec_vars

\* Words of the lyrics: conjunctions in either case, words that merely begin
\* or end with a conjunction's letters, and a word that does neither.
Vocabulary == <<<<"A", "N", "D">>, <<"o", "r">>, <<"b", "a", "n", "d">>,
                <<"O", "r", "a", "n", "g", "e">>, <<"l", "o", "v", "e">>>>
\* Chunks of 1..MaxWords words taken from Vocabulary at the indices ix.
\* random.sample draws every ordered pair of positions, so a chunk lists its
\* words in the order of Vocabulary.
WordChoices(k, ix) == {f \in [1..k -> ix] : \A i \in 1..(k - 1) : f[i] <= f[i + 1]}
Phrases(ix) ==
    UNION {{[i \in 1..k |-> Vocabulary[f[i]]] : f \in WordChoices(k, ix)} :
              k \in 1..MaxWords}
ShortChunks == {<<"l", "o", "v", "e">>}
ShortLists == UNION {[1..k -> ShortChunks] : k \in 0..(MaxChunks - 1)}
\* The chunks of one lyric: some short chunks, then at most one longer one.
ChunkLists(ix) ==
    {short \o last : short \in ShortLists,
                     last \in {<<>>} \cup {<<join(p)>> : p \in Phrases(ix)}}
\* get_lyrics returns at most one lyric (lines 101-102).
Corpora(ix) == {<<>>} \cup {<<chunks>> : chunks \in ChunkLists(ix)}
AllWords == 1..Len(Vocabulary)
\* "AND", "or" and "love".
FewWords == {1, 2, Len(Vocabulary)}

InitName ==
    /\ RecIdle
    /\ \E docs \in Corpora(AllWords) : NameStart(generate_noun_chunks(docs))
NextName == ChoosePhrase \/ SamplePair \/ CheckPair \/ ReturnWhole
SpecName == InitName /\ [][NextName]_vars

\* choose_name runs to completion once called (weak fairness of its steps),
\* and the random source does not withhold for ever an outcome that stays
\* possible: a chunk of at least 3 words, a pair the filter accepts.
ChooseAccepted == ChoosePhrase /\ name_pc' = "branch"
SampleAccepted == SamplePair /\ ~Rejected(play_name')
InitNameFair ==
    /\ RecIdle
    /\ \E docs \in Corpora(FewWords) : NameStart(generate_noun_chunks(docs))
SpecNameFair ==
    /\ InitNameFair /\ [][NextName]_vars
    /\ WF_vars(NextName)
    /\ SF_vars(ChooseAccepted)
    /\ SF_vars(SampleAccepted)

\* The whole of recommend: catalogs of every size up to MaxCatalog, both
\* modes, a few user profiles.
GridRow(i) ==
    [c \in Cols |-> IF c = 1 THEN i % (MaxVal + 1)
                    ELSE (i \div (MaxVal + 1)) % (MaxVal + 1)]
GridCatalog(n) == [i \in 1..n |-> GridRow(i - 1)]
Reverse(s) == [i \in 1..Len(s) |-> s[Len(s) + 1 - i]]
Catalogs == UNION {{GridCatalog(n), Reverse(GridCatalog(n))} : n \in 0..MaxCatalog}
Profiles == {<<>>, <<GridRow(1)>>, <<GridRow(0), GridRow(MaxVal + 2)>>}

Init ==
    /\ \E features \in Profiles, data \in Catalogs, b \in BOOLEAN :
          RecStart(features, data, b)
    /\ NameIdle
Next == NormalizeFeatures \/ NormalizeData \/ Rank \/ Draw \/ Select
Spec == Init /\ [][Next]_vars

-----------------------------------------------------------------------------
(* Properties of recommend.                                                *)

Returned == pc = "done"
CatalogSize == Len(data_in)
PairwiseDistinct(s) == \A i, j \in 1..Len(s) : i # j => s[i] # s[j]

\* C1: in either mode every returned result holds exactly NumRecs names, ids
\* and primary artists, and they refer to NumRecs pairwise distinct catalog
\* indices.
C1_ResultIsNumRecsDistinct ==
    Returned =>
        /\ Len(rec_result.rec_names) = NumRecs
        /\ Len(rec_result.rec_ids) = NumRecs
        /\ Len(rec_result.rec_artists) = NumRecs
        /\ Len(recommendations) = NumRecs
        /\ Range(recommendations) \subseteq 0..(CatalogSize - 1)
        /\ PairwiseDistinct(recommendations)
C1_Witness == Returned /\ bad /\ CatalogSize = MaxCatalog

\* Position (0-based) of catalog index r in ordered.
RankOf(r) == (CHOOSE k \in 1..Len(ordered) : ordered[k] = r) - 1
Min(a, b) == IF a < b THEN a ELSE b

\* C2: for every catalog of at least NumRecs rows the selection succeeds,
\* every selected entry lies in the last min(BadSpan, N) ranked positions
\* (dissimilar) or the first min(GoodSpan, N) (similar), and no draw
\* addresses a position outside ordered.
C2_ClampedSelectionSucceeds ==
    (CatalogSize >= NumRecs /\ Len(features_in) >= 1) =>
        /\ \A k \in 1..Len(random_indexes) : InBounds(random_indexes[k], CatalogSize)
        /\ pc # "failed"
        /\ Returned =>
              \A k \in 1..Len(recommendations) :
                 IF bad
                 THEN RankOf(recommendations[k]) >= CatalogSize - Min(BadSpan, CatalogSize)
                 ELSE RankOf(recommendations[k]) < Min(GoodSpan, CatalogSize)

\* C3: with fewer than NumRecs catalog rows the request fails before any
\* randomized draw is made, and returns nothing.
C3_SmallCatalogFailsBeforeDraw ==
    CatalogSize < NumRecs =>
        /\ random_indexes = <<>>
        /\ rec_result = NoResult

Ranked == pc = "draw"
DistOf(r) == SqDist(user_avg, data_df[r + 1])

\* C6: ordered is a permutation of all catalog indices along which the
\* distance to the user's mean vector never decreases.
C6_RankedOrderSortedPermutation ==
    Ranked =>
        /\ Len(ordered) = CatalogSize
        /\ Range(ordered) = 0..(CatalogSize - 1)
        /\ \A i, j \in 1..Len(ordered) :
              i < j => DistOf(ordered[i]) <= DistOf(ordered[j])
C6_Witness ==
    /\ Ranked
    /\ CatalogSize >= 2
    /\ ordered[1] # 0
    /\ DistOf(ordered[1]) < DistOf(ordered[2])
    /\ \E c \in Cols : user_avg.num[c] # 0

FeaturesNormalized ==
    \/ pc \in {"normalize_data", "rank", "draw"}
    \/ pc = "failed" /\ Len(features_in) > 0
DataNormalized == pc \in {"rank", "draw"}

Constant(raw, c) == ColMin(raw, c) = ColMax(raw, c)
MinMaxScaled(raw, norm) ==
    /\ Len(norm) = Len(raw)
    /\ \A c \in Cols :
          IF Constant(raw, c)
          THEN \A i \in 1..Len(raw) : norm[i][c] = 0
          ELSE \A i \in 1..Len(raw) :
                  /\ 0 <= norm[i][c] /\ norm[i][c] <= Unit
                  /\ raw[i][c] = ColMin(raw, c) => norm[i][c] = 0
                  /\ raw[i][c] = ColMax(raw, c) => norm[i][c] = Unit

ZeroRow == [c \in Cols |-> 0]
\* C10: a user profile of exactly one feature vector normalizes to all
\* zeros, so the reference vector is the zero vector and the ranking is one
\* the catalog alone determines.
C10_SingleTrackProfileIgnored ==
    (Len(features_in) = 1 /\ Ranked) =>
        /\ features_df = <<ZeroRow>>
        /\ user_avg.num = ZeroRow
        /\ ordered \in kneighbors([num |-> ZeroRow, den |-> 1],
                                  normalize_data(data_in))
C10_Witness ==
    /\ Len(features_in) = 1 /\ features_in[1] # ZeroRow
    /\ Ranked /\ CatalogSize >= 2
    /\ DistOf(ordered[1]) < DistOf(ordered[2])

-----------------------------------------------------------------------------
(* Properties of choose_name.                                              *)

NameReturned == name_pc = "done"
NameEnded == name_pc \in {"done", "failed"}
IsConj(word) == \E k \in 1..Len(conjs) : lower(word) = conjs[k]

\* C4: with no candidate phrase (an empty lyric corpus included)
\* choose_name fails on its first choice: it raises, returns no name, and
\* does not loop.
C4_EmptyCandidatesFail ==
    /\ [](noun_chunks = <<>> =>
            /\ name_result = NoName
            /\ name_draws = 0
            /\ name_pc \in {"choose", "failed"}
            /\ name_pc = "choose" => ENABLED ChoosePhrase
            /\ name_pc = "failed" => name_error = "IndexError")
    /\ [][(noun_chunks = <<>> /\ name_pc = "choose") => name_pc' = "failed"]_vars
C4_Witness ==
    noun_chunks = <<>> /\ name_pc = "failed" /\ name_error = "IndexError"

\* C5: a returned name comes from a candidate of at least 3 words; a
\* candidate of 3 or 4 words is returned whole, title-cased; a longer one
\* yields exactly 2 words from two different positions, title-cased, that
\* neither start nor end with "and", "or" or "but" in any case.
C5_NameShape ==
    NameReturned =>
        LET words == split(playlist)
        IN  /\ \E i \in 1..Len(noun_chunks) : playlist = noun_chunks[i]
            /\ Len(words) >= 3
            /\ Len(words) <= 4 => name_result = title(playlist)
            /\ Len(words) > 4 =>
                  /\ \E i, j \in 1..Len(words) :
                        i # j /\ name_result = title(join(<<words[i], words[j]>>))
                  /\ Len(split(name_result)) = 2
                  /\ ~IsConj(split(name_result)[1])
                  /\ ~IsConj(split(name_result)[2])
                  /\ \A k \in 1..Len(conjs) :
                        /\ ~startswith(lower(name_result), conjs[k])
                        /\ ~endswith(lower(name_result), conjs[k])
C5_Witness ==
    /\ NameReturned
    /\ word_length > 4
    /\ \E i \in 1..Len(split(playlist)) : IsConj(split(playlist)[i])
    /\ name_result # play_name

\* C8: choose_name ends, with a name or a failure, on every candidate
\* sequence.
C8_ChooseNameTerminates == <>NameEnded

\* C9: a sampled pair is redrawn if and only if its first or its last word
\* is exactly "and", "or" or "but" in any case.
C9_RedrawnIffConjunctionWord ==
    /\ name_pc = "resample" => (IsConj(p_list[1]) \/ IsConj(p_list[2]))
    /\ (NameReturned /\ word_length > 4) => ~(IsConj(p_list[1]) \/ IsConj(p_list[2]))

====
